---------------------------- MODULE Spec2Model ----------------------------
(***************************************************************************)
(* Model of the voice agent of src/audio_agent.py and src/graph.py.        *)
(*                                                                         *)
(*   - the streaming playback subsystem: the playback_active flag, the     *)
(*     audio_queue, the worker threads created by                          *)
(*     start_streaming_playback, and the main (asyncio) thread that        *)
(*     starts playback, enqueues synthesized chunks and stops playback;    *)
(*   - run_audio_session: record, transcribe, branch on the transcript;    *)
(*   - the dialogue graph of src/graph.py: rag_node -> chatbot, the        *)
(*     conditional edge to tools, tools -> chatbot, with the               *)
(*     InMemorySaver checkpointer;                                         *)
(*   - the token loop of process_with_streaming_tts, character by          *)
(*     character: the accumulation buffer and the texts handed to          *)
(*     _process_sentence_tts;                                              *)
(*   - graph.astream calls in flight at one time on the threads of the     *)
(*     checkpointer (src/main.py and the voice orchestrator).              *)
(*                                                                         *)
(* Each part has its own specification; the variables of the other parts   *)
(* keep their initial values in it.                                        *)
(***************************************************************************)
EXTENDS Integers, Sequences, FiniteSets, TLC

\* ------------------------------------------------------------------ bounds

\* Worker threads that start_streaming_playback may create in one run.
MaxThreads == 2
\* Sentences handed to _process_sentence_tts in one run.
MaxSentences == 2
\* The count of queue polls a stopped worker makes is recorded up to this.
MaxPolls == 3
\* Calls of start_streaming_playback a caller makes with no stop between.
MaxStarts == 2
\* Sentences a caller hands to _process_sentence_tts directly.
MaxApiSentences == 1
\* Tool calls one assistant message may request.
MaxCalls == 2
\* tools -> chatbot round trips followed within one turn.
MaxRoundTrips == 2
\* Turns begun on one thread of the dialogue graph.
MaxGraphTurns == 2
\* Failures of stream.write in one run.
MaxWriteErrors == 1
\* Requests the HTTP endpoint serves at one time.
MaxRequests == 2
\* graph.astream calls one caller makes, one after the other.
MaxCallerTurns == 1
\* Chunks of one response stream.
MaxTokens == 4

\* The length a sentence must pass to be synthesized (line 439).
MinSentenceLen == 3

Threads == 1..MaxThreads

\* --------------------------------------------------------------- variables

VARIABLES
    playback_active,    \* AudioAgent.playback_active
    audio_queue,        \* AudioAgent.audio_queue: sequence of chunk numbers
    worker,             \* worker[t]: a _streaming_playback_worker thread
    mainPc,             \* where the main thread is in its turn
    nextSeq,            \* number of the next sentence unit of the run
    played,             \* device log: <<[chunk, by]>> in order of writing
    discarded,          \* chunks removed by stop_streaming_playback
    stopMark,           \* stopMark[t]: nextSeq at the first stop call made
                        \*   while thread t was running, 0 if none
    pollsAfterStop,     \* pollsAfterStop[t]: queue polls thread t began
                        \*   after that stop call
    queuedAtStop,       \* chunks that were queued at some stop call
    startsSinceStop,    \* start calls since the last stop call
    spawnedSinceStop,   \* threads created since the last stop call
    \* run_audio_session (one turn of the session loop)
    enable_tts,         \* the enable_tts argument of the turn
    transcribed,        \* "none", "text" (the service answered), "failed"
    transcript,         \* what transcribe_audio returned: a sequence of characters
    engineCalls,        \* graph.astream calls made in the turn
    turnStarts,         \* start_streaming_playback calls made in the turn
    synthLog,           \* texts sent to the synthesis service in the turn
    spoken,             \* texts handed to play_audio in the turn
    returned,           \* what run_audio_session returned, NoValue before
    \* the dialogue graph of src/graph.py
    node,               \* the node about to run, "idle", "end" or "error"
    messages,           \* State.messages of the running turn
    checkpoint,         \* the messages InMemorySaver holds for the thread
    turnBase,           \* Len(checkpoint) when the turn began
    roundTrips,         \* tools -> chatbot round trips of the turn
    graphTurns,         \* turns begun on the thread
    calledFrom,         \* the node that ran last in the turn
    \* history of the output device and of the synthesis requests
    writeErrors,        \* failed stream.write calls: <<[chunk, by, at]>>,
                        \*   at = Len(played) when the write failed
    enqueued,           \* the chunks that were put on the queue
    synthOutcome,       \* synthOutcome[n]: what _process_sentence_tts met
                        \*   for sentence n of a run_audio_session run
    \* the token loop of process_with_streaming_tts, character by character
    segPc,              \* "idle", "stream" while chunks arrive, then "done"
                        \*   (the stream ended) or "raised"
    segTts,             \* the enable_tts argument of the call
    streamText,         \* the contents of the chunks received, concatenated
    response_chunks,    \* the list of line 391
    segReturned,        \* the text the call returned
    current_sentence,   \* the accumulation buffer of line 392
    units,              \* the texts handed to _process_sentence_tts, in
                        \*   order: <<[text, sent, flush]>>
    segTokens,          \* chunks received
    \* graph.astream calls in flight on the threads of the checkpointer
    store,              \* store[tid]: messages InMemorySaver holds for tid
    turn                \* turn[c]: the call of caller c

playbackVars == <<playback_active, audio_queue, worker, mainPc, nextSeq,
                  played, discarded, stopMark, pollsAfterStop, queuedAtStop,
                  startsSinceStop, spawnedSinceStop, writeErrors,
                  enqueued>>

sessionVars == <<enable_tts, transcribed, transcript, engineCalls, turnStarts,
                 synthLog, spoken, returned, synthOutcome>>

graphVars == <<node, messages, checkpoint, turnBase, roundTrips, graphTurns,
               calledFrom>>

segVars == <<segPc, segTts, streamText, response_chunks, current_sentence, units,
             segTokens, segReturned>>

httpVars == <<store, turn>>

vars == <<playbackVars, sessionVars, graphVars, segVars, httpVars>>

\* ------------------------------------------------------------ playback

\* A thread is running from its creation until it leaves the worker function.
Running(t) == worker[t].pc \in {"check", "get", "write"}

Unborn == {t \in Threads : worker[t].pc = "unborn"}

Min(S) == CHOOSE x \in S : \A y \in S : x <= y

InitPlayback ==
    /\ playback_active = FALSE
    /\ audio_queue = <<>>
    /\ worker = [t \in Threads |-> [pc |-> "unborn", stream |-> FALSE, chunk |-> 0]]
    /\ mainPc = "idle"
    /\ nextSeq = 1
    /\ played = <<>>
    /\ discarded = {}
    /\ stopMark = [t \in Threads |-> 0]
    /\ pollsAfterStop = [t \in Threads |-> 0]
    /\ queuedAtStop = {}
    /\ startsSinceStop = 0
    /\ spawnedSinceStop = 0
    /\ writeErrors = <<>>
    /\ enqueued = {}

\* start_streaming_playback without the test of line 291.
start_streaming_playback_unguarded ==
    /\ startsSinceStop' = startsSinceStop + 1
    /\ Unborn # {}
    /\ playback_active' = TRUE
    /\ worker' = [worker EXCEPT ![Min(Unborn)].pc = "check"]
    /\ spawnedSinceStop' = spawnedSinceStop + 1

\* start_streaming_playback, lines 291-297: return if the flag is set, else
\* set it and start a new worker thread.
start_streaming_playback ==
    /\ startsSinceStop' = startsSinceStop + 1
    /\ IF playback_active
         THEN UNCHANGED <<playback_active, worker, spawnedSinceStop>>
         ELSE /\ Unborn # {}
              /\ playback_active' = TRUE
              /\ worker' = [worker EXCEPT ![Min(Unborn)].pc = "check"]
              /\ spawnedSinceStop' = spawnedSinceStop + 1

\* stop_streaming_playback, line 303: clear the flag.  The drain loop of
\* lines 305-309 follows in StopDrain.
stop_streaming_playback ==
    /\ playback_active' = FALSE
    /\ stopMark' = [t \in Threads |->
                      IF Running(t) /\ stopMark[t] = 0 THEN nextSeq ELSE stopMark[t]]
    /\ queuedAtStop' = queuedAtStop \cup {audio_queue[i] : i \in 1..Len(audio_queue)}
    /\ startsSinceStop' = 0
    /\ spawnedSinceStop' = 0

\* The drain with `if` for `while`: one chunk at most is removed.
StopDrain_once ==
    /\ mainPc = "drain"
    /\ mainPc' = "idle"
    /\ IF audio_queue = <<>>
         THEN UNCHANGED <<audio_queue, discarded>>
         ELSE /\ audio_queue' = Tail(audio_queue)
              /\ discarded' = discarded \cup {Head(audio_queue)}
    /\ UNCHANGED <<playback_active, worker, nextSeq, played, stopMark,
                   pollsAfterStop, queuedAtStop, startsSinceStop, spawnedSinceStop>>
    /\ UNCHANGED <<sessionVars, graphVars>>
    /\ UNCHANGED <<writeErrors, enqueued, segVars, httpVars>>

\* One iteration of `while not self.audio_queue.empty(): get_nowait()`.  A
\* worker taking the last chunk between empty() and get_nowait() makes
\* get_nowait raise, and the bare except breaks: the same as finding the
\* queue empty after the worker's step.
StopDrain ==
    /\ mainPc = "drain"
    /\ IF audio_queue = <<>>
         THEN /\ mainPc' = "idle"
              /\ UNCHANGED <<audio_queue, discarded>>
         ELSE /\ audio_queue' = Tail(audio_queue)
              /\ discarded' = discarded \cup {Head(audio_queue)}
              /\ UNCHANGED mainPc
    /\ UNCHANGED <<playback_active, worker, nextSeq, played, stopMark,
                   pollsAfterStop, queuedAtStop, startsSinceStop, spawnedSinceStop>>
    /\ UNCHANGED <<sessionVars, graphVars>>
    /\ UNCHANGED <<writeErrors, enqueued, segVars, httpVars>>

\* What _process_sentence_tts meets: a sentence too short to synthesize
\* (line 439), or a synthesis request that gives audio bytes, empty bytes or
\* an exception (caught at line 454).
SynthOutcomes == {"short", "audio", "empty", "error"}

\* _process_sentence_tts, lines 446-452: the chunk is put on the queue when
\* the request succeeded and returned audio.
process_sentence_tts(outcome) ==
    /\ nextSeq <= MaxSentences
    /\ nextSeq' = nextSeq + 1
    /\ audio_queue' = IF outcome = "audio" THEN Append(audio_queue, nextSeq)
                                           ELSE audio_queue
    /\ enqueued' = IF outcome = "audio" THEN enqueued \cup {nextSeq} ELSE enqueued

\* ---- the worker thread, lines 311-345

\* `while self.playback_active:` (line 319)
WorkerCheck(t) ==
    /\ worker[t].pc = "check"
    /\ IF playback_active
         THEN /\ worker' = [worker EXCEPT ![t].pc = "get"]
              /\ pollsAfterStop' =
                    [pollsAfterStop EXCEPT ![t] =
                        IF stopMark[t] # 0 /\ @ < MaxPolls THEN @ + 1 ELSE @]
         ELSE /\ worker' = [worker EXCEPT ![t].pc = "exit", ![t].stream = FALSE]
              /\ UNCHANGED pollsAfterStop
    /\ UNCHANGED <<playback_active, audio_queue, mainPc, nextSeq, played, discarded,
                   stopMark, queuedAtStop, startsSinceStop, spawnedSinceStop>>
    /\ UNCHANGED <<sessionVars, graphVars>>
    /\ UNCHANGED <<writeErrors, enqueued, segVars, httpVars>>

\* A worker that reads the head of the queue and leaves it there.
WorkerGet_peek(t) ==
    /\ worker[t].pc = "get"
    /\ audio_queue # <<>>
    /\ worker' = [worker EXCEPT ![t].pc = "write", ![t].stream = TRUE,
                                ![t].chunk = Head(audio_queue)]
    /\ audio_queue' = audio_queue
    /\ UNCHANGED <<playback_active, mainPc, nextSeq, played, discarded, stopMark,
                   pollsAfterStop, queuedAtStop, startsSinceStop, spawnedSinceStop>>
    /\ UNCHANGED <<sessionVars, graphVars>>
    /\ UNCHANGED <<writeErrors, enqueued, segVars, httpVars>>

\* audio_queue.get(timeout=0.1) returns a chunk (line 322); the stream is
\* opened on the first chunk (lines 324-332).
WorkerGet(t) ==
    /\ worker[t].pc = "get"
    /\ audio_queue # <<>>
    /\ worker' = [worker EXCEPT ![t].pc = "write", ![t].stream = TRUE,
                                ![t].chunk = Head(audio_queue)]
    /\ audio_queue' = Tail(audio_queue)
    /\ UNCHANGED <<playback_active, mainPc, nextSeq, played, discarded, stopMark,
                   pollsAfterStop, queuedAtStop, startsSinceStop, spawnedSinceStop>>
    /\ UNCHANGED <<sessionVars, graphVars>>
    /\ UNCHANGED <<writeErrors, enqueued, segVars, httpVars>>

\* audio_queue.get(timeout=0.1) times out on an empty queue; the bare except
\* of line 337 continues the loop.
WorkerTimeout(t) ==
    /\ worker[t].pc = "get"
    /\ audio_queue = <<>>
    /\ worker' = [worker EXCEPT ![t].pc = "check"]
    /\ UNCHANGED <<playback_active, audio_queue, mainPc, nextSeq, played, discarded,
                   stopMark, pollsAfterStop, queuedAtStop, startsSinceStop,
                   spawnedSinceStop>>
    /\ UNCHANGED <<sessionVars, graphVars>>
    /\ UNCHANGED <<writeErrors, enqueued, segVars, httpVars>>

\* stream.write(audio_chunk) (line 335)
WorkerWrite(t) ==
    /\ worker[t].pc = "write"
    /\ played' = Append(played, [chunk |-> worker[t].chunk, by |-> t])
    /\ worker' = [worker EXCEPT ![t].pc = "check", ![t].chunk = 0]
    /\ UNCHANGED <<playback_active, audio_queue, mainPc, nextSeq, discarded, stopMark,
                   pollsAfterStop, queuedAtStop, startsSinceStop, spawnedSinceStop>>
    /\ UNCHANGED <<sessionVars, graphVars>>
    /\ UNCHANGED <<writeErrors, enqueued, segVars, httpVars>>

\* stream.write(audio_chunk) (line 335) raises: the bare except of line 337
\* takes the exception and continues the loop; the stream stays open.
\* inTurn says that no stop call was made since the thread was created, so
\* the chunk is of the turn that is still running.
WorkerWriteFail(t) ==
    /\ worker[t].pc = "write"
    /\ Len(writeErrors) < MaxWriteErrors
    /\ writeErrors' = Append(writeErrors,
                          [chunk |-> worker[t].chunk, by |-> t, at |-> Len(played),
                           inTurn |-> stopMark[t] = 0])
    /\ worker' = [worker EXCEPT ![t].pc = "check", ![t].chunk = 0]
    /\ UNCHANGED <<playback_active, audio_queue, mainPc, nextSeq, played, discarded,
                   stopMark, pollsAfterStop, queuedAtStop, startsSinceStop,
                   spawnedSinceStop>>
    /\ UNCHANGED <<sessionVars, graphVars, segVars, httpVars>>
    /\ UNCHANGED enqueued

\* ---- the main thread in process_with_streaming_tts with enable_tts

\* lines 384-385
TurnBegin ==
    /\ mainPc = "idle"
    /\ start_streaming_playback
    /\ mainPc' = "stream"
    /\ UNCHANGED <<audio_queue, nextSeq, played, discarded, stopMark,
                   pollsAfterStop, queuedAtStop>>
    /\ UNCHANGED <<sessionVars, graphVars>>
    /\ UNCHANGED <<writeErrors, enqueued, segVars, httpVars>>

\* lines 412 and 417
TurnSentence ==
    /\ mainPc = "stream"
    /\ \E outcome \in SynthOutcomes : process_sentence_tts(outcome)
    /\ UNCHANGED <<playback_active, worker, mainPc, played, discarded, stopMark,
                   pollsAfterStop, queuedAtStop, startsSinceStop, spawnedSinceStop>>
    /\ UNCHANGED <<sessionVars, graphVars>>
    /\ UNCHANGED <<writeErrors, segVars, httpVars>>

\* line 424 (the stream ended) or line 430 (the stream raised)
TurnEnd ==
    /\ mainPc = "stream"
    /\ stop_streaming_playback
    /\ mainPc' = "drain"
    /\ UNCHANGED <<audio_queue, worker, nextSeq, played, discarded, pollsAfterStop>>
    /\ UNCHANGED <<sessionVars, graphVars>>
    /\ UNCHANGED <<writeErrors, enqueued, segVars, httpVars>>

\* ---- the same steps without the record of stop calls

\* WorkerCheck without the count of polls after a stop call.
WorkerLoopTest(t) ==
    /\ worker[t].pc = "check"
    /\ worker' = IF playback_active
                   THEN [worker EXCEPT ![t].pc = "get"]
                   ELSE [worker EXCEPT ![t].pc = "exit", ![t].stream = FALSE]
    /\ UNCHANGED <<playback_active, audio_queue, mainPc, nextSeq, played, discarded,
                   stopMark, pollsAfterStop, queuedAtStop, startsSinceStop,
                   spawnedSinceStop>>
    /\ UNCHANGED <<sessionVars, graphVars>>
    /\ UNCHANGED <<writeErrors, enqueued, segVars, httpVars>>

\* TurnEnd without the marks of the stop call: line 303 clears the flag and
\* the drain follows.
TurnStop ==
    /\ mainPc = "stream"
    /\ playback_active' = FALSE
    /\ startsSinceStop' = 0
    /\ spawnedSinceStop' = 0
    /\ mainPc' = "drain"
    /\ UNCHANGED <<audio_queue, worker, nextSeq, played, discarded, stopMark,
                   pollsAfterStop, queuedAtStop>>
    /\ UNCHANGED <<sessionVars, graphVars>>
    /\ UNCHANGED <<writeErrors, enqueued, segVars, httpVars>>

WorkerRun ==
    \E t \in Threads :
        WorkerLoopTest(t) \/ WorkerGet(t) \/ WorkerTimeout(t) \/ WorkerWrite(t)

WorkerStep ==
    \E t \in Threads : WorkerCheck(t) \/ WorkerGet(t) \/ WorkerTimeout(t) \/ WorkerWrite(t)

WorkerFail == \E t \in Threads : WorkerWriteFail(t)

\* ---- the public methods called directly, in any order, by one caller

ApiStart ==
    /\ mainPc = "idle"
    /\ startsSinceStop < MaxStarts
    /\ start_streaming_playback
    /\ UNCHANGED <<audio_queue, mainPc, nextSeq, played, discarded, stopMark,
                   pollsAfterStop, queuedAtStop>>
    /\ UNCHANGED <<sessionVars, graphVars>>
    /\ UNCHANGED <<writeErrors, enqueued, segVars, httpVars>>

ApiSentence ==
    /\ mainPc = "idle"
    /\ nextSeq <= MaxApiSentences
    /\ \E outcome \in SynthOutcomes : process_sentence_tts(outcome)
    /\ UNCHANGED <<playback_active, worker, mainPc, played, discarded, stopMark,
                   pollsAfterStop, queuedAtStop, startsSinceStop, spawnedSinceStop>>
    /\ UNCHANGED <<sessionVars, graphVars>>
    /\ UNCHANGED <<writeErrors, segVars, httpVars>>

ApiStop ==
    /\ mainPc = "idle"
    /\ stop_streaming_playback
    /\ mainPc' = "drain"
    /\ UNCHANGED <<audio_queue, worker, nextSeq, played, discarded, pollsAfterStop>>
    /\ UNCHANGED <<sessionVars, graphVars>>
    /\ UNCHANGED <<writeErrors, enqueued, segVars, httpVars>>


\* ------------------------------------------------------ run_audio_session

NoValue == "<none>"
NoSpeechMsg == "No speech detected."
NoTextMsg == "No text was transcribed from the audio."
SorryMsg == "Sorry, an error occurred during processing."
ErrorMsg == "Error occurred"
ReplyText == "<reply>"
StreamErrorText == "<str(e)>"
PartialText == "<chunks before the exception>"
SentenceText == "<sentence>"

\* Texts the transcription service can return, as sequences of characters.
Transcripts == {<<>>, <<" ">>, <<"h", "i">>, <<" ", "h", "i">>}

\* Answers of the transcription request: a text, or an exception.
TranscribeResponses ==
    [ok : {TRUE}, text : Transcripts] \cup {[ok |-> FALSE, text |-> <<"e", "r", "r">>]}

\* str.strip()
RECURSIVE LStrip(_)
LStrip(t) == IF t # <<>> /\ Head(t) = " " THEN LStrip(Tail(t)) ELSE t

RECURSIVE RStrip(_)
RStrip(t) == IF t # <<>> /\ t[Len(t)] = " " THEN RStrip(SubSeq(t, 1, Len(t) - 1)) ELSE t

Strip(t) == RStrip(LStrip(t))

\* transcribe_audio that answers an exception with its text.
transcribe_audio_error_text(resp) == resp.text

\* transcribe_audio, lines 115-146: the transcript of the response, or the
\* empty string when the request raised.
transcribe_audio(resp) == IF resp.ok THEN resp.text ELSE <<>>

\* `if transcript:` (line 493)
Truthy(t) == Len(t) > 0

InitSession ==
    /\ enable_tts = TRUE
    /\ transcribed = "none"
    /\ transcript = <<>>
    /\ engineCalls = 0
    /\ turnStarts = 0
    /\ synthLog = <<>>
    /\ spoken = <<>>
    /\ returned = NoValue
    /\ synthOutcome = <<>>

\* main(), line 584: the session loop calls run_audio_session with the
\* enable_tts the user's commands have set.
SessionBegin ==
    /\ mainPc = "idle"
    /\ \E e \in BOOLEAN : enable_tts' = e
    /\ mainPc' = "record"
    /\ transcribed' = "none"
    /\ transcript' = <<>>
    /\ engineCalls' = 0
    /\ turnStarts' = 0
    /\ synthLog' = <<>>
    /\ spoken' = <<>>
    /\ returned' = NoValue
    /\ UNCHANGED <<playback_active, audio_queue, worker, nextSeq, played, discarded,
                   stopMark, pollsAfterStop, queuedAtStop, startsSinceStop,
                   spawnedSinceStop>>
    /\ UNCHANGED graphVars
    /\ UNCHANGED <<writeErrors, enqueued, synthOutcome, segVars, httpVars>>

\* run_audio_session with no try around its body: the exception leaves it.
run_audio_session_unhandled == "raised"

\* `except Exception as e:` (line 509) takes every exception raised in the
\* body of run_audio_session (lines 486-507).
run_audio_session_handler == "except"

\* record_audio (line 488) returns, or raises a device error.
SessionRecord ==
    /\ mainPc = "record"
    /\ \E ok \in BOOLEAN :
          mainPc' = IF ok THEN "transcribe" ELSE run_audio_session_handler
    /\ UNCHANGED <<playback_active, audio_queue, worker, nextSeq, played, discarded,
                   stopMark, pollsAfterStop, queuedAtStop, startsSinceStop,
                   spawnedSinceStop>>
    /\ UNCHANGED <<sessionVars, graphVars>>
    /\ UNCHANGED <<writeErrors, enqueued, segVars, httpVars>>

\* line 491
SessionTranscribe ==
    /\ mainPc = "transcribe"
    /\ \E resp \in TranscribeResponses :
          /\ transcript' = transcribe_audio(resp)
          /\ transcribed' = IF resp.ok THEN "text" ELSE "failed"
    /\ mainPc' = "branch"
    /\ UNCHANGED <<playback_active, audio_queue, worker, nextSeq, played, discarded,
                   stopMark, pollsAfterStop, queuedAtStop, startsSinceStop,
                   spawnedSinceStop>>
    /\ UNCHANGED <<enable_tts, engineCalls, turnStarts, synthLog, spoken, returned>>
    /\ UNCHANGED graphVars
    /\ UNCHANGED <<writeErrors, enqueued, synthOutcome, segVars, httpVars>>

\* lines 493-507: with no transcript the fixed message is spoken through
\* text_to_speech and play_audio (when enable_tts) and returned.
\* text_to_speech returns b"" when its request raises (lines 172-174).
SessionNoSpeech ==
    /\ mainPc = "branch"
    /\ ~Truthy(transcript)
    /\ IF enable_tts
         THEN /\ synthLog' = Append(synthLog, NoSpeechMsg)
              /\ \E audio \in BOOLEAN :
                    spoken' = IF audio THEN Append(spoken, NoSpeechMsg) ELSE spoken
         ELSE UNCHANGED <<synthLog, spoken>>
    /\ returned' = NoSpeechMsg
    /\ mainPc' = "idle"
    /\ UNCHANGED <<playback_active, audio_queue, worker, nextSeq, played, discarded,
                   stopMark, pollsAfterStop, queuedAtStop, startsSinceStop,
                   spawnedSinceStop>>
    /\ UNCHANGED <<enable_tts, transcribed, transcript, engineCalls, turnStarts>>
    /\ UNCHANGED graphVars
    /\ UNCHANGED <<writeErrors, enqueued, synthOutcome, segVars, httpVars>>

\* lines 493-495 and process_with_streaming_tts lines 378-379: a transcript
\* of white space alone is returned for without a call of the graph.
SessionBlank ==
    /\ mainPc = "branch"
    /\ Truthy(transcript)
    /\ Strip(transcript) = <<>>
    /\ returned' = NoTextMsg
    /\ mainPc' = "idle"
    /\ UNCHANGED <<playback_active, audio_queue, worker, nextSeq, played, discarded,
                   stopMark, pollsAfterStop, queuedAtStop, startsSinceStop,
                   spawnedSinceStop>>
    /\ UNCHANGED <<enable_tts, transcribed, transcript, engineCalls, turnStarts,
                   synthLog, spoken>>
    /\ UNCHANGED graphVars
    /\ UNCHANGED <<writeErrors, enqueued, synthOutcome, segVars, httpVars>>

\* process_with_streaming_tts without the test of line 384: playback is
\* started whatever enable_tts is.
SessionAgent_always_starts ==
    /\ mainPc = "branch"
    /\ Truthy(transcript)
    /\ Strip(transcript) # <<>>
    /\ start_streaming_playback
    /\ turnStarts' = turnStarts + 1
    /\ engineCalls' = engineCalls + 1
    /\ mainPc' = "tokens"
    /\ UNCHANGED <<audio_queue, nextSeq, played, discarded, stopMark, pollsAfterStop,
                   queuedAtStop>>
    /\ UNCHANGED <<enable_tts, transcribed, transcript, synthLog, spoken, returned>>
    /\ UNCHANGED graphVars
    /\ UNCHANGED <<writeErrors, enqueued, synthOutcome, segVars, httpVars>>

\* process_with_streaming_tts lines 384-399: playback is started (when
\* enable_tts) and the graph is streamed.
SessionAgent ==
    /\ mainPc = "branch"
    /\ Truthy(transcript)
    /\ Strip(transcript) # <<>>
    /\ IF enable_tts
         THEN /\ start_streaming_playback
              /\ turnStarts' = turnStarts + 1
         ELSE UNCHANGED <<playback_active, worker, startsSinceStop, spawnedSinceStop,
                          turnStarts>>
    /\ engineCalls' = engineCalls + 1
    /\ mainPc' = "tokens"
    /\ UNCHANGED <<audio_queue, nextSeq, played, discarded, stopMark, pollsAfterStop,
                   queuedAtStop>>
    /\ UNCHANGED <<enable_tts, transcribed, transcript, synthLog, spoken, returned>>
    /\ UNCHANGED graphVars
    /\ UNCHANGED <<writeErrors, enqueued, synthOutcome, segVars, httpVars>>

\* The token loop with a _process_sentence_tts that lets the exception of
\* the synthesis request out: the handler of lines 428-432 ends the turn.
SessionSentence_raises ==
    /\ mainPc = "tokens"
    /\ enable_tts
    /\ \E outcome \in SynthOutcomes :
          /\ process_sentence_tts(outcome)
          /\ synthLog' = IF outcome = "short" THEN synthLog
                                              ELSE Append(synthLog, SentenceText)
          /\ synthOutcome' = Append(synthOutcome, outcome)
          /\ IF outcome = "error"
               THEN /\ playback_active' = FALSE
                    /\ mainPc' = "drain"
                    /\ returned' = StreamErrorText
               ELSE UNCHANGED <<playback_active, mainPc, returned>>
    /\ UNCHANGED <<worker, played, discarded, stopMark,
                   pollsAfterStop, queuedAtStop, startsSinceStop, spawnedSinceStop>>
    /\ UNCHANGED <<enable_tts, transcribed, transcript, engineCalls, turnStarts,
                   spoken>>
    /\ UNCHANGED graphVars
    /\ UNCHANGED <<writeErrors, segVars, httpVars>>

\* lines 405-417: a sentence is handed to _process_sentence_tts, which
\* sends it to the synthesis service unless it is too short.  An exception
\* of the request is caught inside _process_sentence_tts (lines 454-455),
\* so the loop goes on with the next chunk.
SessionSentence ==
    /\ mainPc = "tokens"
    /\ enable_tts
    /\ \E outcome \in SynthOutcomes :
          /\ process_sentence_tts(outcome)
          /\ synthLog' = IF outcome = "short" THEN synthLog
                                              ELSE Append(synthLog, SentenceText)
          /\ synthOutcome' = Append(synthOutcome, outcome)
    /\ UNCHANGED <<playback_active, worker, mainPc, played, discarded, stopMark,
                   pollsAfterStop, queuedAtStop, startsSinceStop, spawnedSinceStop>>
    /\ UNCHANGED <<enable_tts, transcribed, transcript, engineCalls, turnStarts,
                   spoken, returned>>
    /\ UNCHANGED graphVars
    /\ UNCHANGED <<writeErrors, segVars, httpVars>>

\* lines 422-426 (the stream ended) and 428-432 (it raised): playback is
\* stopped (when enable_tts) and the text is returned: the reply, or after
\* an exception the chunks received before it, or the text of the
\* exception when there was none.
SessionAgentEnd ==
    /\ mainPc = "tokens"
    /\ \E text \in {ReplyText, PartialText, StreamErrorText} : returned' = text
    /\ IF enable_tts
         THEN /\ stop_streaming_playback
              /\ mainPc' = "drain"
         ELSE /\ mainPc' = "idle"
              /\ UNCHANGED <<playback_active, stopMark, queuedAtStop, startsSinceStop,
                             spawnedSinceStop>>
    /\ UNCHANGED <<audio_queue, worker, nextSeq, played, discarded, pollsAfterStop>>
    /\ UNCHANGED <<enable_tts, transcribed, transcript, engineCalls, turnStarts,
                   synthLog, spoken>>
    /\ UNCHANGED graphVars
    /\ UNCHANGED <<writeErrors, enqueued, synthOutcome, segVars, httpVars>>

\* lines 509-522: the handler of run_audio_session.  The apology is
\* synthesized and played inside a try of its own (lines 515-520);
\* text_to_speech gives no audio when its request fails.
SessionExcept ==
    /\ mainPc = "except"
    /\ IF enable_tts
         THEN /\ synthLog' = Append(synthLog, SorryMsg)
              /\ \E audio \in BOOLEAN :
                    spoken' = IF audio THEN Append(spoken, SorryMsg) ELSE spoken
         ELSE UNCHANGED <<synthLog, spoken>>
    /\ returned' = ErrorMsg
    /\ mainPc' = "idle"
    /\ UNCHANGED <<playback_active, audio_queue, worker, nextSeq, played, discarded,
                   stopMark, pollsAfterStop, queuedAtStop, startsSinceStop,
                   spawnedSinceStop>>
    /\ UNCHANGED <<enable_tts, transcribed, transcript, engineCalls, turnStarts>>
    /\ UNCHANGED graphVars
    /\ UNCHANGED <<writeErrors, enqueued, synthOutcome, segVars, httpVars>>


\* ------------------------------------------- the dialogue graph (graph.py)

UserMessage == [role |-> "user", calls |-> 0]
AIMessage(n) == [role |-> "assistant", calls |-> n]
ToolMessage(j) == [role |-> "tool", calls |-> j]

\* What llm_with_tools.ainvoke can give: an assistant message requesting
\* 0..MaxCalls tool calls, or an exception of the backend.
ModelAnswers == [ok : {TRUE}, calls : 0..MaxCalls] \cup {[ok |-> FALSE, calls |-> 0]}

\* tools_condition (lines 43-46): to the tools node when the last assistant
\* message requests tool calls, else to END.
tools_condition(msg) == IF msg.calls > 0 THEN "tools" ELSE "end"

\* The tools node answering only the first call.
tool_node_first(msg) == <<ToolMessage(1)>>

\* ToolNode(tools=[getWeather]) (line 40): one tool message for each call the
\* assistant message requests, in order.
tool_node(msg) == [j \in 1..msg.calls |-> ToolMessage(j)]

\* graph_builder.add_edge("tools", "chatbot") (line 47)
tools_edge == "chatbot"

InitGraph ==
    /\ node = "idle"
    /\ messages = <<>>
    /\ checkpoint = <<>>
    /\ turnBase = 0
    /\ roundTrips = 0
    /\ graphTurns = 0
    /\ calledFrom = "none"

\* graph.astream with a user message (audio_agent.py lines 395-399, test.py
\* lines 6-10): add_messages appends it to the messages the checkpointer
\* holds for the thread; the entry point is rag_node (line 48).
GraphInvoke ==
    /\ node \in {"idle", "end", "error"}
    /\ graphTurns < MaxGraphTurns
    /\ graphTurns' = graphTurns + 1
    /\ turnBase' = Len(checkpoint)
    /\ messages' = Append(checkpoint, UserMessage)
    /\ checkpoint' = Append(checkpoint, UserMessage)
    /\ roundTrips' = 0
    /\ node' = "rag_node"
    /\ calledFrom' = "start"
    /\ UNCHANGED <<playbackVars, sessionVars>>
    /\ UNCHANGED <<segVars, httpVars>>

\* ragnode (lines 26-29) and the edge rag_node -> chatbot (line 42)
GraphRagNode ==
    /\ node = "rag_node"
    /\ node' = "chatbot"
    /\ calledFrom' = "rag_node"
    /\ checkpoint' = messages
    /\ UNCHANGED <<messages, turnBase, roundTrips, graphTurns>>
    /\ UNCHANGED <<playbackVars, sessionVars>>
    /\ UNCHANGED <<segVars, httpVars>>

\* chatbot (lines 31-36) with the conditional edge of lines 43-46.  A step
\* that ends is saved by the checkpointer (lines 49-50); one that raises
\* leaves the messages and ends the stream with the exception.
GraphChatbot ==
    /\ node = "chatbot"
    /\ \E ans \in ModelAnswers :
          IF ans.ok
            THEN /\ ans.calls > 0 => roundTrips < MaxRoundTrips
                 /\ messages' = Append(messages, AIMessage(ans.calls))
                 /\ checkpoint' = Append(messages, AIMessage(ans.calls))
                 /\ node' = tools_condition(AIMessage(ans.calls))
            ELSE /\ node' = "error"
                 /\ UNCHANGED <<messages, checkpoint>>
    /\ calledFrom' = "chatbot"
    /\ UNCHANGED <<turnBase, roundTrips, graphTurns>>
    /\ UNCHANGED <<playbackVars, sessionVars>>
    /\ UNCHANGED <<segVars, httpVars>>

\* The tools node (lines 40-41) and the edge tools -> chatbot (line 47).
GraphTools ==
    /\ node = "tools"
    /\ messages' = messages \o tool_node(messages[Len(messages)])
    /\ checkpoint' = messages \o tool_node(messages[Len(messages)])
    /\ node' = tools_edge
    /\ roundTrips' = roundTrips + 1
    /\ calledFrom' = "tools"
    /\ UNCHANGED <<turnBase, graphTurns>>
    /\ UNCHANGED <<playbackVars, sessionVars>>
    /\ UNCHANGED <<segVars, httpVars>>

\* ------------------------- concurrent graph.astream calls (main.py, graph.py)

\* Caller 0 is the voice orchestrator; callers 1..MaxRequests are requests
\* the HTTP endpoint is serving.
Callers == 0..MaxRequests

\* The thread_id of the call: "audio_session" (audio_agent.py line 397) or
\* "1" (main.py line 17).
thread_id(c) == IF c = 0 THEN "audio_session" ELSE "1"

ThreadIds == {thread_id(c) : c \in Callers}

InFlight(c) == turn[c].node \in {"rag_node", "chatbot", "tools"}

InitHttp ==
    /\ store = [tid \in ThreadIds |-> <<>>]
    /\ turn = [c \in Callers |->
                 [node |-> "idle", messages |-> <<>>, trips |-> 0, calls |-> 0]]

\* invoke_agent (main.py lines 12-23) and process_with_streaming_tts
\* (audio_agent.py lines 395-399) call graph.astream with a user message:
\* the run loads the messages the checkpointer (graph.py lines 49-50) holds
\* for its thread_id and appends the message.  The session loop awaits its
\* call before the next one; the endpoint takes a request at any time, and
\* nothing in either path waits for another call on the same thread_id.
AstreamInvoke(c) ==
    /\ turn[c].node \in {"idle", "end", "error"}
    /\ turn[c].calls < MaxCallerTurns
    /\ turn' = [turn EXCEPT ![c] =
                  [node |-> "rag_node",
                   messages |-> Append(store[thread_id(c)], UserMessage),
                   trips |-> 0,
                   calls |-> @.calls + 1]]
    /\ store' = [store EXCEPT ![thread_id(c)] = Append(@, UserMessage)]
    /\ UNCHANGED <<playbackVars, sessionVars, graphVars, segVars>>

\* One step of the run of caller c: the node of graph.py runs on the
\* messages of this run, and the checkpointer saves them for the thread_id.
AstreamStep(c) ==
    /\ InFlight(c)
    /\ \/ /\ turn[c].node = "rag_node"
          /\ turn' = [turn EXCEPT ![c].node = "chatbot"]
          /\ store' = [store EXCEPT ![thread_id(c)] = turn[c].messages]
       \/ /\ turn[c].node = "chatbot"
          /\ \E ans \in ModelAnswers :
                IF ans.ok
                  THEN /\ ans.calls > 0 => turn[c].trips < MaxRoundTrips
                       /\ turn' = [turn EXCEPT
                             ![c].messages = Append(@, AIMessage(ans.calls)),
                             ![c].node = tools_condition(AIMessage(ans.calls))]
                       /\ store' = [store EXCEPT ![thread_id(c)] =
                                      Append(turn[c].messages, AIMessage(ans.calls))]
                  ELSE /\ turn' = [turn EXCEPT ![c].node = "error"]
                       /\ UNCHANGED store
       \/ /\ turn[c].node = "tools"
          /\ turn' = [turn EXCEPT
                ![c].messages = @ \o tool_node(@[Len(@)]),
                ![c].node = tools_edge,
                ![c].trips = @ + 1]
          /\ store' = [store EXCEPT ![thread_id(c)] =
                         turn[c].messages
                            \o tool_node(turn[c].messages[Len(turn[c].messages)])]
    /\ UNCHANGED <<playbackVars, sessionVars, graphVars, segVars>>

\* --------------------------------- the token loop, character by character

\* The contents a chunk of the stream can have, as sequences of characters:
\* letters, white space, the terminal markers, a marker with text after it,
\* and the empty content that line 400 skips.
Tokens == {<<>>, <<"a">>, <<"a", "a", "a">>, <<" ">>, <<".">>, <<"!">>, <<"?">>,
           <<"a", ".", " ", "a">>}

\* The punctuation line 410 looks for.
Markers == {".", "!", "?"}

\* `any(punct in current_sentence for punct in ['.', '!', '?'])` (line 410)
HasMarker(t) == \E i \in 1..Len(t) : t[i] \in Markers

\* _process_sentence_tts that sends every text that is not empty.
Sendable_nonempty(sentence) == Len(Strip(sentence)) > 0

\* `if len(sentence.strip()) > 3:` (line 439): the synthesis request is made
\* for a longer text only; a shorter one is dropped without a word.
Sendable(sentence) == Len(Strip(sentence)) > MinSentenceLen

\* What _process_sentence_tts can meet for a text: "short" for one that
\* fails the test of line 439, else one of the answers of the request.
OutcomesFor(sentence) ==
    IF Sendable(sentence) THEN SynthOutcomes \ {"short"} ELSE {"short"}

\* A call of _process_sentence_tts (lines 412 and 417): the text handed
\* over, whether the request was made for it, whether the call was the
\* flush of line 417, the buffer it was taken from, what the buffer holds
\* after the call, and what the call met.
Unit(buffer, flush, kept, outcome) ==
    [text |-> Strip(buffer), sent |-> Sendable(Strip(buffer)), flush |-> flush,
     buffer |-> buffer, kept |-> kept, outcome |-> outcome]

\* The text of the exception of the stream, str(e) (line 432).
StreamErrorChars == <<"e", "r", "r">>

\* "".join that gives the last chunk only.
join_last(chunks) == IF chunks = <<>> THEN <<>> ELSE chunks[Len(chunks)]

\* `"".join(response_chunks)` (lines 426 and 432)
RECURSIVE join(_)
join(chunks) == IF chunks = <<>> THEN <<>> ELSE Head(chunks) \o join(Tail(chunks))

InitSeg ==
    /\ segPc = "idle"
    /\ segTts = TRUE
    /\ streamText = <<>>
    /\ response_chunks = <<>>
    /\ current_sentence = <<>>
    /\ units = <<>>
    /\ segTokens = 0
    /\ segReturned = <<>>

\* process_with_streaming_tts is called with a text that is not blank
\* (lines 374-392): enable_tts is the caller's, response_chunks and the
\* buffer are empty.
SegBegin ==
    /\ segPc = "idle"
    /\ segPc' = "stream"
    /\ \E e \in BOOLEAN : segTts' = e
    /\ UNCHANGED <<streamText, response_chunks, current_sentence, units, segTokens,
                   segReturned>>
    /\ UNCHANGED <<playbackVars, sessionVars, graphVars, httpVars>>

\* One pass of the loop body of lines 400-413: a chunk with content is
\* appended to response_chunks and, with enable_tts, to the buffer; when
\* the buffer holds a marker, the whole buffer, stripped, is handed to
\* _process_sentence_tts and the buffer is emptied.  Whatever the call
\* meets, it returns to the loop (lines 454-455).
SegChunk(tok) ==
    /\ segPc = "stream"
    /\ segTokens < MaxTokens
    /\ segTokens' = segTokens + 1
    /\ IF tok = <<>>
         THEN UNCHANGED <<streamText, response_chunks, current_sentence, units>>
         ELSE /\ streamText' = streamText \o tok
              /\ response_chunks' = Append(response_chunks, tok)
              /\ IF segTts
                   THEN IF HasMarker(current_sentence \o tok)
                          THEN /\ \E outcome \in OutcomesFor(Strip(current_sentence \o tok)) :
                                     units' = Append(units,
                                                Unit(current_sentence \o tok, FALSE,
                                                     <<>>, outcome))
                               /\ current_sentence' = <<>>
                          ELSE /\ current_sentence' = current_sentence \o tok
                               /\ UNCHANGED units
                   ELSE UNCHANGED <<current_sentence, units>>
    /\ UNCHANGED <<segPc, segTts, segReturned>>
    /\ UNCHANGED <<playbackVars, sessionVars, graphVars, httpVars>>

\* The stream ended: with enable_tts, lines 416-417 hand what is left in
\* the buffer to _process_sentence_tts when it is more than white space;
\* line 426 returns the chunks joined.
SegFlush ==
    /\ segPc = "stream"
    /\ segPc' = "done"
    /\ IF segTts /\ Strip(current_sentence) # <<>>
         THEN \E outcome \in OutcomesFor(Strip(current_sentence)) :
                 units' = Append(units,
                            Unit(current_sentence, TRUE, current_sentence, outcome))
         ELSE UNCHANGED units
    /\ segReturned' = join(response_chunks)
    /\ UNCHANGED <<segTts, streamText, response_chunks, current_sentence, segTokens>>
    /\ UNCHANGED <<playbackVars, sessionVars, graphVars, httpVars>>

\* The stream raised: the handler of lines 428-432 returns, without a
\* flush, the chunks joined, or the text of the exception when there is no
\* chunk.
SegRaise ==
    /\ segPc = "stream"
    /\ segPc' = "raised"
    /\ segReturned' = IF response_chunks # <<>> THEN join(response_chunks)
                                                ELSE StreamErrorChars
    /\ UNCHANGED <<segTts, streamText, response_chunks, current_sentence, units,
                   segTokens>>
    /\ UNCHANGED <<playbackVars, sessionVars, graphVars, httpVars>>

Init == InitPlayback /\ InitSession /\ InitGraph /\ InitSeg /\ InitHttp

Next == TurnBegin \/ TurnSentence \/ TurnEnd \/ StopDrain \/ WorkerStep

Spec == Init /\ [][Next]_vars

\* The turns of Spec on an output device whose writes can fail.
NextDevice == TurnBegin \/ TurnSentence \/ TurnEnd \/ StopDrain \/ WorkerStep \/ WorkerFail

SpecDevice == Init /\ [][NextDevice]_vars

\* The turns of SpecDevice with no record kept of the stop calls: the
\* program takes the same steps, and stopMark, pollsAfterStop and
\* queuedAtStop stay as they began.
NextTurn == TurnBegin \/ TurnSentence \/ TurnStop \/ StopDrain \/ WorkerRun \/ WorkerFail

SpecTurn == Init /\ [][NextTurn]_vars

NextApi == ApiStart \/ ApiSentence \/ ApiStop \/ StopDrain \/ WorkerStep

SpecApi == Init /\ [][NextApi]_vars

\* The main thread through run_audio_session.  The worker threads take no
\* step here: nothing the main thread reads is written by them but the
\* queue that stop_streaming_playback drains.
NextSession ==
    \/ SessionBegin \/ SessionRecord \/ SessionTranscribe \/ SessionNoSpeech
    \/ SessionBlank \/ SessionAgent \/ SessionSentence \/ SessionAgentEnd
    \/ SessionExcept \/ StopDrain

SpecSession == Init /\ [][NextSession]_vars

NextGraph == GraphInvoke \/ GraphRagNode \/ GraphChatbot \/ GraphTools

SpecGraph == Init /\ [][NextGraph]_vars

\* The calls in flight on the threads of the checkpointer: the voice
\* orchestrator and the requests of the HTTP endpoint, in any interleaving.
NextHttp == \E c \in Callers : AstreamInvoke(c) \/ AstreamStep(c)

SpecHttp == Init /\ [][NextHttp]_vars

\* The token loop of process_with_streaming_tts, with and without speech, on
\* every stream of up to MaxTokens chunks drawn from Tokens.
NextSeg == SegBegin \/ (\E tok \in Tokens : SegChunk(tok)) \/ SegFlush \/ SegRaise

SpecSeg == Init /\ [][NextSeg]_vars

\* ------------------------------------------------- claims on playback

PlayedChunks == {played[i].chunk : i \in 1..Len(played)}

\* C1 (playback order): the chunks written to the output device appear in
\* the order of their sentence numbers, whatever the interleaving of the
\* producer, the workers and the start and stop calls.
C1_PlaybackOrder ==
    \A i, j \in 1..Len(played) : i < j => played[i].chunk < played[j].chunk

\* C2 (no late play): a worker on which stop_streaming_playback was called
\* never writes a chunk that was put on the queue after that call.
C2_NoLatePlay ==
    \A i \in 1..Len(played) :
        stopMark[played[i].by] # 0 => played[i].chunk < stopMark[played[i].by]

\* C3 (bounded exit): a worker on which stop_streaming_playback was called
\* begins at most two further queue polls.
C3_BoundedExit ==
    \A t \in Threads : pollsAfterStop[t] <= 2

\* C4 (single consumer): at most one worker thread is running and holds an
\* open output stream.
C4_SingleConsumer ==
    Cardinality({t \in Threads : Running(t) /\ worker[t].stream}) <= 1

\* C6 (stop drains without playing): no chunk that was in the queue when
\* stop_streaming_playback was called is written to the output device, and
\* the queue is empty once stop has returned.
C6_StopDrains ==
    /\ PlayedChunks \cap queuedAtStop = {}
    /\ mainPc = "idle" => audio_queue = <<>>

\* C5 (idempotent start): a start_streaming_playback call made while
\* playback is active changes neither the flag, the workers nor the queue,
\* and two or more start calls with no stop between them create exactly one
\* worker.
C5_IdempotentStart ==
    /\ [](startsSinceStop >= 2 => spawnedSinceStop = 1)
    /\ [][(startsSinceStop' = startsSinceStop + 1 /\ playback_active)
            => /\ playback_active' = playback_active
               /\ worker' = worker
               /\ audio_queue' = audio_queue]_vars

C5_Witness ==
    /\ startsSinceStop >= 2
    /\ spawnedSinceStop = 1
    /\ playback_active
    /\ \E t \in Threads : Running(t)

\* ------------------------------------------- claims on run_audio_session

\* C7 (empty-transcript path): in a turn whose transcription gave the empty
\* string or failed, the graph is not called, playback is not started, and
\* the fixed message is the only text synthesized and the only one returned.
C7_EmptyTranscript ==
    (transcribed = "failed" \/ (transcribed = "text" /\ transcript = <<>>))
        => /\ engineCalls = 0
           /\ turnStarts = 0
           /\ \A i \in 1..Len(synthLog) : synthLog[i] = NoSpeechMsg
           /\ Len(synthLog) <= 1
           /\ returned \in {NoValue, NoSpeechMsg}
           /\ mainPc = "idle" => returned = NoSpeechMsg

C7_Witness ==
    /\ transcribed = "failed"
    /\ transcript = <<>>
    /\ mainPc = "idle"
    /\ returned = NoSpeechMsg
    /\ synthLog = <<NoSpeechMsg>>
    /\ spoken = <<NoSpeechMsg>>

\* ------------------------------------------- claims on the dialogue graph

TurnMessages == SubSeq(checkpoint, turnBase + 1, Len(checkpoint))

\* From index i of ms: k times an assistant message requesting n > 0 calls
\* with its n tool messages, then one assistant message with no call, at
\* the end of ms.
RECURSIVE RoundsFrom(_, _, _)
RoundsFrom(ms, i, k) ==
    /\ i <= Len(ms)
    /\ ms[i].role = "assistant"
    /\ IF k = 0
         THEN ms[i].calls = 0 /\ i = Len(ms)
         ELSE /\ ms[i].calls > 0
              /\ i + ms[i].calls < Len(ms)
              /\ \A j \in 1..ms[i].calls : ms[i + j] = ToolMessage(j)
              /\ RoundsFrom(ms, i + ms[i].calls + 1, k - 1)

\* C8 (tool-loop message order): when a turn reaches END after k >= 1 round
\* trips, the messages it added to the thread are the user message, k times
\* (assistant message with tool calls, one tool message for each call), and
\* a last assistant message with no call; END is entered from chatbot only
\* and the step after tools is chatbot.
C8_ToolLoopOrder ==
    /\ (node = "end" /\ roundTrips >= 1) =>
          /\ Len(TurnMessages) >= 1
          /\ TurnMessages[1] = UserMessage
          /\ RoundsFrom(TurnMessages, 2, roundTrips)
          /\ messages = checkpoint
    /\ node = "end" => calledFrom = "chatbot"
    /\ calledFrom = "tools" => node = "chatbot"

C8_Witness ==
    /\ node = "end"
    /\ roundTrips = 2
    /\ \E i \in 1..Len(TurnMessages) : TurnMessages[i] = AIMessage(2)

C10_FailureRollback ==
    node = "error" => TurnMessages = <<UserMessage>>

\* C11 (one turn per session at a time): no two graph.astream calls are in
\* flight on the same thread_id, so the messages the checkpointer holds for
\* a thread are written by one running turn at most.
C11_OneTurnPerSession ==
    \A c1, c2 \in Callers :
        (c1 # c2 /\ InFlight(c1) /\ InFlight(c2)) => thread_id(c1) # thread_id(c2)

\* ---------------------------------------- claims on the failures of a turn

\* C12 (no error escapes a turn): whatever fails in a turn (capture,
\* transcription, dialogue, synthesis, the spoken apology), no exception
\* leaves run_audio_session, and every turn that ends has returned a
\* message.
C12_NoErrorEscapes ==
    /\ [](mainPc # "raised")
    /\ [][(mainPc # "idle" /\ mainPc' = "idle") => returned' # NoValue]_vars

C12_Witness ==
    /\ mainPc = "idle"
    /\ enable_tts
    /\ returned = ErrorMsg
    /\ synthLog = <<SorryMsg>>
    /\ spoken = <<>>

ErrorTexts == {SorryMsg, ErrorMsg, StreamErrorText}

\* C13 (spoken fallback on stage failure): a turn that ended after its
\* capture or its dialogue failed has sent an error message to synthesis
\* when speech is enabled, and has sent nothing to synthesis for it when
\* speech is disabled.
C13_SpokenFallback ==
    (mainPc = "idle" /\ returned \in {ErrorMsg, StreamErrorText, PartialText}) =>
        IF enable_tts
          THEN \E i \in 1..Len(synthLog) : synthLog[i] \in ErrorTexts
          ELSE synthLog = <<>>

\* C14 (output-device failure aborts playback): after a write of a chunk to
\* the output device failed during a turn, no later chunk of that turn
\* (one that was still queued, or one put on the queue afterwards) is
\* written to the device.
C14_DeviceFailureAborts ==
    \A k \in 1..Len(writeErrors) :
        writeErrors[k].inTurn =>
            \A i \in 1..Len(played) :
                ~ /\ i > writeErrors[k].at
                  /\ played[i].chunk > writeErrors[k].chunk
                  /\ \/ stopMark[writeErrors[k].by] = 0
                     \/ played[i].chunk < stopMark[writeErrors[k].by]

\* C20 (turn end leaves playback idle): when process_with_streaming_tts has
\* returned with speech enabled, after the stream ended or raised,
\* playback_active is false and the queue is empty.
C20_TurnEndIdle ==
    mainPc = "idle" => (~playback_active /\ audio_queue = <<>>)

C20_Witness ==
    /\ mainPc = "idle"
    /\ ~playback_active
    /\ audio_queue = <<>>
    /\ discarded # {}
    /\ played # <<>>

\* The chunks that were ever put on the queue.
EverEnqueued ==
    {audio_queue[i] : i \in 1..Len(audio_queue)} \cup discarded \cup PlayedChunks
        \cup {worker[t].chunk : t \in {u \in Threads : worker[u].chunk # 0}}

\* C15 (synthesis failure is skipped): a sentence whose synthesis request
\* failed puts nothing on the queue; the token loop goes on after it; and
\* the sentences after it are still sent to synthesis and, when the request
\* gives audio, put on the queue in their order.
C15_SynthFailureSkipped ==
    /\ [](\A n \in 1..Len(synthOutcome) :
              (synthOutcome[n] = "audio") <=> (n \in EverEnqueued))
    /\ [](\A i, j \in 1..Len(audio_queue) : i < j => audio_queue[i] < audio_queue[j])
    /\ [][Len(synthOutcome') > Len(synthOutcome) =>
            /\ mainPc' = "tokens"
            /\ returned' = NoValue
            /\ synthOutcome'[Len(synthOutcome')] # "short" =>
                    synthLog' = Append(synthLog, SentenceText)]_vars

C15_Witness ==
    /\ mainPc = "tokens"
    /\ synthOutcome = <<"error", "audio">>
    /\ audio_queue = <<2>>
    /\ synthLog = <<SentenceText, SentenceText>>

\* ------------------------------------------------ claims on the segmenter

AllSpace(t) == \A i \in 1..Len(t) : t[i] = " "

IsPrefix(u, t) == Len(u) <= Len(t) /\ SubSeq(t, 1, Len(u)) = u

\* text is the texts of us in their order, with white space alone before,
\* between and after them.
RECURSIVE Reconstructs(_, _)
Reconstructs(text, us) ==
    IF us = <<>>
      THEN AllSpace(text)
      ELSE /\ IsPrefix(us[1], LStrip(text))
           /\ Reconstructs(SubSeq(LStrip(text), Len(us[1]) + 1, Len(LStrip(text))),
                           Tail(us))

\* The texts of the units sent to synthesis, in their order, with the last
\* unit of the stream also when it was dropped as too short.
RECURSIVE SentAndLast(_)
SentAndLast(us) ==
    IF us = <<>> THEN <<>>
    ELSE IF us[1].sent \/ Len(us) = 1
           THEN <<us[1].text>> \o SentAndLast(Tail(us))
           ELSE SentAndLast(Tail(us))

\* C16 (segmenter reconstruction): when a stream has ended in a call with
\* speech enabled, the units sent to synthesis, in their order, with the
\* short remainder dropped at the end, are the text of the stream up to the
\* white space trimmed from the units; nothing else of the stream is
\* dropped.
C16_SegmenterReconstruction ==
    (segPc = "done" /\ segTts) => Reconstructs(streamText, SentAndLast(units))

FirstMarker(t) == Min({i \in 1..Len(t) : t[i] \in Markers})

RECURSIVE RunEnd(_, _)
RunEnd(t, i) == IF i < Len(t) /\ t[i + 1] \in Markers THEN RunEnd(t, i + 1) ELSE i

\* C18 (split at the marker): a unit handed over in the middle of the
\* stream is the buffer up to and including its marker, trimmed, and the
\* text after the marker is what the buffer holds afterwards.
C18_SplitAtMarker ==
    \A i \in 1..Len(units) :
        ~units[i].flush =>
            LET buf == units[i].buffer
                k == RunEnd(buf, FirstMarker(buf))
            IN /\ units[i].text = Strip(SubSeq(buf, 1, k))
               /\ units[i].kept = SubSeq(buf, k + 1, Len(buf))

\* C19 (fallback unit): when a stream with text in it has ended in a call
\* with speech enabled, some unit of it was sent to synthesis: if no unit
\* passed the length test, the full text was sent as one unit.
C19_FallbackUnit ==
    (segPc = "done" /\ segTts /\ Strip(streamText) # <<>>) =>
        \E i \in 1..Len(units) : units[i].sent

\* ------------------------------------------- claims on the whole turn

\* The chunks a worker took from the queue: those written to the device,
\* those a worker holds for writing, and those whose write failed.
Taken ==
    PlayedChunks
        \cup {worker[t].chunk : t \in {u \in Threads : worker[u].chunk # 0}}
        \cup {writeErrors[k].chunk : k \in 1..Len(writeErrors)}

\* C21 (chunk conservation): whatever the interleaving of the producer, the
\* workers and stop, a chunk is written to the device once at most, no
\* chunk is both taken by a worker and discarded by stop, only chunks that
\* were put on the queue are taken or discarded, and once stop has returned
\* every chunk put on the queue was taken or discarded.
C21_ChunkConservation ==
    LET held == {worker[t].chunk : t \in Threads} \ {0}
        gone == Taken \cup discarded
    IN /\ Cardinality(PlayedChunks) = Len(played)
       /\ Cardinality(held) = Cardinality({t \in Threads : worker[t].chunk # 0})
       /\ held \cap PlayedChunks = {}
       /\ Taken \cap discarded = {}
       /\ gone \subseteq enqueued
       /\ mainPc = "idle" => enqueued \subseteq gone

C21_Witness ==
    /\ mainPc = "idle"
    /\ enqueued = {1, 2}
    /\ PlayedChunks = {1}
    /\ discarded = {2}

\* A step of process_with_streaming_tts in a turn with enable_tts false.
TextOnlyStep ==
    /\ ~enable_tts
    /\ (mainPc = "branch" /\ Truthy(transcript)) \/ mainPc = "tokens"

\* C22 (text-only mode has no audio effect): in a turn with enable_tts
\* false, process_with_streaming_tts starts no playback worker, sends
\* nothing to synthesis, puts nothing on the queue and leaves
\* playback_active and the queue as they were.
C22_TextOnlyNoAudio ==
    /\ []((~enable_tts /\ engineCalls > 0) => (turnStarts = 0 /\ synthLog = <<>>))
    /\ [][TextOnlyStep =>
            /\ playback_active' = playback_active
            /\ audio_queue' = audio_queue
            /\ worker' = worker
            /\ enqueued' = enqueued
            /\ synthLog' = synthLog
            /\ mainPc' # "drain"]_vars

C22_Witness ==
    /\ mainPc = "idle"
    /\ ~enable_tts
    /\ engineCalls = 1
    /\ returned = ReplyText
    /\ turnStarts = 0
    /\ enqueued # {}

\* C23 (returned text is independent of speech): for a stream that ended,
\* process_with_streaming_tts returns the contents of its chunks in their
\* order, with speech or without and whatever the synthesis requests met;
\* for a stream that raised it returns the contents received before, or
\* the text of the exception when none was received.
C23_ReturnedText ==
    /\ segPc = "done" => segReturned = streamText
    /\ segPc = "raised" =>
          segReturned = IF streamText # <<>> THEN streamText ELSE StreamErrorChars

C23_Witness ==
    /\ segPc = "done"
    /\ segTts
    /\ Len(response_chunks) >= 3
    /\ \E i \in 1..Len(units) : units[i].outcome = "error"
    /\ \E i \in 1..Len(units) : units[i].outcome = "short"
    /\ segReturned = streamText

=============================================================================
